---- MODULE Spec2Model ----
(***************************************************************************)
(* Model of src/main.py: the Streamlit "Finance Automation" dashboard.     *)
(*                                                                         *)
(* One user interaction is one top-to-bottom pass of the script (followed  *)
(* by the pass st.rerun() starts, when the handler calls it).  The state   *)
(* is st.session_state, the widgets' contents (the file uploader and the   *)
(* script editor) and the process-wide sys.stdout.                         *)
(*                                                                         *)
(* Python values are records with a field "kind" (the value's type).  A    *)
(* log entry's "[HH:MM:SS]" prefix is not modelled: an entry is identified *)
(* by its position in the log.  Message texts are sequences of strings.    *)
(***************************************************************************)
EXTENDS Integers, Sequences, FiniteSets, TLC

VARIABLES
    session_state,   \* st.session_state: the keys of lines 109-120 and current_file_names
    uploaded_files,  \* the content of the st.file_uploader widget
    code_editor,     \* the content of the st.text_area widget (the script)
    sys_stdout,      \* the process-wide sys.stdout
    history,         \* history variables: everything appended to the logs
    last_pass,       \* history variable: what the last pass did
    call,            \* the function call under test: arguments and result
    pc,              \* per session thread: position in execute_python_script
    old_stdout       \* per session thread: the local old_stdout of line 232

vars == <<session_state, uploaded_files, code_editor, sys_stdout, history,
          last_pass, call, pc, old_stdout>>

-----------------------------------------------------------------------------
(* Bounds of the model *)

MaxUploaded == 2        \* files held by the uploader at once
MaxConsoleHist == 9    \* console entries appended between two clears (Spec)
MaxErrorHist == 2       \* error entries appended between two clears (Spec)
MaxPrints == 97         \* print calls of the longest script (SpecLog)
MaxLogErrors == 22      \* error entries appended between two clears (SpecLog)
MaxListLen == 3         \* files passed to combine_uploaded_files (SpecFn)

(* Program constants *)

ConsoleCap == 100
ErrorCap == 20

-----------------------------------------------------------------------------
(* Python values *)

None == [kind |-> "NoneType"]
IntValue == [kind |-> "int"]
ListValue == [kind |-> "list"]

IsDataFrame(v) == v.kind = "DataFrame"

\* type(v), as f"{type(v)}" prints it
TypeOf(v) ==
    CASE v.kind = "DataFrame" -> "<class 'pandas.core.frame.DataFrame'>"
      [] v.kind = "NoneType" -> "<class 'NoneType'>"
      [] v.kind = "int" -> "<class 'int'>"
      [] v.kind = "list" -> "<class 'list'>"

\* A table: parts names the files whose rows it holds, in order; columns are
\* the column names; labels is the type of the column labels.
DataFrame(parts, rows, columns, labels) ==
    [kind |-> "DataFrame", parts |-> parts, rows |-> rows,
     columns |-> columns, labels |-> labels]

RECURSIVE HasDuplicates(_)
HasDuplicates(s) ==
    IF Len(s) < 2 THEN FALSE
    ELSE (\E i \in 2..Len(s) : s[i] = s[1]) \/ HasDuplicates(Tail(s))

-----------------------------------------------------------------------------
(* The two logs *)

Icon(msg_type) ==
    CASE msg_type = "info" -> "INFO"
      [] msg_type = "success" -> "SUCCESS"
      [] msg_type = "error" -> "ERROR"
      [] msg_type = "warning" -> "WARNING"
      [] OTHER -> "INFO"

\* logs[:n]: what a truncation that keeps the oldest entries would do
KeepOldest(logs, n) == SubSeq(logs, 1, n)

\* logs[-n:]
KeepLast(logs, n) == SubSeq(logs, Len(logs) - n + 1, Len(logs))

\* lines 127-128 and 137-138
Truncate(logs, cap) == IF Len(logs) > cap THEN KeepLast(logs, cap) ELSE logs

AppendConsole(w, entry) ==
    [w EXCEPT !.ss.console_logs = Truncate(Append(@, entry), ConsoleCap),
              !.h.console = Append(@, entry),
              !.h.run_console = Append(@, entry)]

log_to_console(w, message, msg_type) ==
    AppendConsole(w, [icon |-> Icon(msg_type), msg |-> message])

AppendError(w, error_entry) ==
    [w EXCEPT !.ss.error_logs = Truncate(Append(@, error_entry), ErrorCap),
              !.h.errors = Append(@, error_entry),
              !.h.run_errors = Append(@, error_entry)]

\* traceback_str = "" stands for the default None (no traceback block)
log_error(w, error_msg, traceback_str) ==
    AppendError(w, [msg |-> error_msg, tb |-> traceback_str])

\* the pair of calls every handler makes: lines 194-195, 252-253, 270-271, ...
LogFailure(w, error_msg, traceback_str) ==
    log_error(log_to_console(w, error_msg, "error"), error_msg, traceback_str)

-----------------------------------------------------------------------------
(* Uploaded files.  A file is [name |-> [stem, ext], bytes |-> content];    *)
(* the content records how it decodes: its encoding, its header row (each  *)
(* name with or without surrounding whitespace) and its number of rows.    *)

Col(base, ws) == [base |-> base, ws |-> ws]

FileA == [name |-> [stem |-> "a", ext |-> ".csv"],
          bytes |-> [enc |-> "utf8", header |-> <<Col("amount", FALSE)>>, rows |-> 1]]
FileB == [name |-> [stem |-> "b", ext |-> ".csv"],
          bytes |-> [enc |-> "latin1", header |-> <<Col("amount", TRUE)>>, rows |-> 2]]
\* header "id, id": two names that collide once trimmed
FileD == [name |-> [stem |-> "d", ext |-> ".csv"],
          bytes |-> [enc |-> "utf8", header |-> <<Col("id", FALSE), Col("id", TRUE)>>, rows |-> 1]]
\* a workbook no engine can read
FileX == [name |-> [stem |-> "x", ext |-> ".xlsx"],
          bytes |-> [enc |-> "junk", header |-> <<>>, rows |-> 0]]
\* a legacy workbook, read by the second engine
FileL == [name |-> [stem |-> "l", ext |-> ".xls"],
          bytes |-> [enc |-> "xls", header |-> <<Col("amount", FALSE)>>, rows |-> 2]]
\* a suffix process_uploaded_file does not know
FileU == [name |-> [stem |-> "u", ext |-> ".CSV"],
          bytes |-> [enc |-> "utf8", header |-> <<Col("amount", FALSE)>>, rows |-> 1]]

AllFiles == {FileA, FileB, FileD, FileX, FileL, FileU}

\* pd.read_csv / pd.read_excel: a table, or the exception raised
Raised(exc) == [kind |-> "raised", exc |-> exc]

ParsedTable(file_bytes, stem) ==
    [kind |-> "DataFrame", parts |-> <<stem>>, rows |-> file_bytes.rows,
     header |-> file_bytes.header]

pd_read_csv(file_bytes, stem, encoding) ==
    CASE file_bytes.enc = "utf8" -> ParsedTable(file_bytes, stem)
      [] file_bytes.enc = "latin1" ->
            IF encoding = "utf-8" THEN Raised("UnicodeDecodeError")
            ELSE ParsedTable(file_bytes, stem)
      [] OTHER ->
            IF encoding = "utf-8" THEN Raised("UnicodeDecodeError")
            ELSE Raised("ParserError")

pd_read_excel(file_bytes, stem, engine) ==
    CASE engine = "openpyxl" /\ file_bytes.enc = "xlsx" -> ParsedTable(file_bytes, stem)
      [] engine = "xlrd" /\ file_bytes.enc = "xls" -> ParsedTable(file_bytes, stem)
      [] engine = "default" /\ file_bytes.enc \in {"xlsx", "xls"} -> ParsedTable(file_bytes, stem)
      [] OTHER -> Raised("ValueError")

\* df.columns.str.strip()
StripColumns(header) == [i \in DOMAIN header |-> header[i].base]

\* lines 145-148
load_csv(first, file_bytes, stem) ==
    IF first.kind = "raised" /\ first.exc = "UnicodeDecodeError"
    THEN pd_read_csv(file_bytes, stem, "latin-1")
    ELSE first

\* lines 150-156
load_excel(first, second, file_bytes, stem) ==
    IF first.kind # "raised" THEN first
    ELSE IF second.kind # "raised" THEN second
    ELSE pd_read_excel(file_bytes, stem, "default")

\* lines 160-163
load_finish(parsed) ==
    IF parsed.kind \in {"raised", "NoneType"} THEN None
    ELSE DataFrame(parsed.parts, parsed.rows, StripColumns(parsed.header), "str")

process_uploaded_file(file_bytes, file_name) ==
    load_finish(
        IF file_name.ext = ".csv"
        THEN load_csv(pd_read_csv(file_bytes, file_name.stem, "utf-8"),
                      file_bytes, file_name.stem)
        ELSE IF file_name.ext \in {".xlsx", ".xls"}
        THEN load_excel(pd_read_excel(file_bytes, file_name.stem, "openpyxl"),
                        pd_read_excel(file_bytes, file_name.stem, "xlrd"),
                        file_bytes, file_name.stem)
        ELSE None)

\* pd.concat(all_dfs, ignore_index=True): rows appended, columns united in
\* first-seen order.  Uniting the columns reindexes every frame, which
\* pandas refuses for a frame with duplicate column names
\* (InvalidIndexError); frames with identical columns are not reindexed.
RECURSIVE UnionColumns(_, _)
UnionColumns(acc, cols) ==
    IF cols = <<>> THEN acc
    ELSE UnionColumns(IF \E i \in DOMAIN acc : acc[i] = Head(cols)
                      THEN acc ELSE Append(acc, Head(cols)),
                      Tail(cols))

RECURSIVE ConcatFrames(_, _)
ConcatFrames(acc, dfs) ==
    IF dfs = <<>> THEN acc
    ELSE ConcatFrames(DataFrame(acc.parts \o Head(dfs).parts,
                                acc.rows + Head(dfs).rows,
                                UnionColumns(acc.columns, Head(dfs).columns),
                                acc.labels),
                      Tail(dfs))

pd_concat(all_dfs) ==
    IF /\ \E i \in DOMAIN all_dfs : HasDuplicates(all_dfs[i].columns)
       /\ \E i \in DOMAIN all_dfs : all_dfs[i].columns # all_dfs[1].columns
    THEN Raised("InvalidIndexError")
    ELSE ConcatFrames(all_dfs[1], Tail(all_dfs))

-----------------------------------------------------------------------------
(* combine_uploaded_files.  w is [ss |-> session state, h |-> history]; the *)
(* result is [w, ret, exc]: the state after the call, the value returned,  *)
(* and the exception that left the function ("none": it returned).         *)

\* a loop that gives up the batch at the first file that does not load
load_one_or_abort(w, all_dfs, name, df) ==
    IF df # None
    THEN [w |-> log_to_console(w, <<"Loaded:", name.stem, name.ext,
                                    ToString(df.rows), "rows">>, "success"),
          all_dfs |-> Append(all_dfs, df)]
    ELSE [w |-> w, all_dfs |-> <<>>]

\* lines 177-179
load_one(w, all_dfs, name, df) ==
    IF df # None
    THEN [w |-> log_to_console(w, <<"Loaded:", name.stem, name.ext,
                                    ToString(df.rows), "rows">>, "success"),
          all_dfs |-> Append(all_dfs, df)]
    ELSE [w |-> w, all_dfs |-> all_dfs]

\* the for loop of lines 174-179
RECURSIVE LoadAll(_, _)
LoadAll(loaded, files) ==
    IF files = <<>> THEN loaded
    ELSE LoadAll(load_one(loaded.w, loaded.all_dfs, Head(files).name,
                          process_uploaded_file(Head(files).bytes, Head(files).name)),
                 Tail(files))

\* line 190-191
combine_total(w, combined_df) ==
    [w |-> log_to_console(w, <<"Total:", ToString(combined_df.rows), "rows,",
                               ToString(Len(combined_df.columns)), "columns">>, "info"),
     ret |-> combined_df, exc |-> "none"]

\* lines 187-188: an exception of pd.concat leaves the try block
combine_concat(w, combined_df, n) ==
    IF combined_df.kind = "raised"
    THEN [w |-> w, ret |-> None, exc |-> combined_df.exc]
    ELSE combine_total(log_to_console(w, <<"Combined", ToString(n), "files">>, "success"),
                       combined_df)

\* lines 181-191
combine_loaded(w, all_dfs) ==
    IF all_dfs = <<>> THEN [w |-> w, ret |-> None, exc |-> "none"]
    ELSE IF Len(all_dfs) = 1 THEN combine_total(w, all_dfs[1])
    ELSE combine_concat(w, pd_concat(all_dfs), Len(all_dfs))

combine_after_load(loaded) == combine_loaded(loaded.w, loaded.all_dfs)

\* the try block, lines 168-191
combine_try(w, files) ==
    IF files = <<>> THEN [w |-> w, ret |-> None, exc |-> "none"]
    ELSE combine_after_load(
             LoadAll([w |-> log_to_console(w, <<"Processing", ToString(Len(files)),
                                                "file(s)...">>, "info"),
                      all_dfs |-> <<>>],
                     files))

\* the except clause, lines 192-196: every Exception is caught
combine_except(body) ==
    IF body.exc # "none"
    THEN [w |-> LogFailure(body.w, <<"Error combining files:", body.exc>>, "traceback"),
          ret |-> None, exc |-> "none"]
    ELSE body

combine_uploaded_files(w, files) == combine_except(combine_try(w, files))

-----------------------------------------------------------------------------
(* Scripts.  A script text is modelled by what running it does:            *)
(*   prints      the number of print(...) calls it makes                   *)
(*   raises      the exception it raises ("none": it completes)            *)
(*   locals      the names it binds in its local scope (plain assignment)  *)
(*   globals     the names it binds under a global declaration             *)
(*   sets_stdout whether it assigns sys.stdout itself                      *)
(* A binding maps the name to the expression assigned.                     *)

NoBinding == <<>>
Bind(expr) == [output_df |-> expr]

Script(prints, raises, locals, globals, sets_stdout) ==
    [prints |-> prints, raises |-> raises, locals |-> locals,
     globals |-> globals, sets_stdout |-> sets_stdout]

\* the value of an assigned expression, given the input_df of the namespace
Eval(expr, input_df) ==
    CASE expr = "None" -> None
      [] expr = "5" -> IntValue
      [] expr = "[]" -> ListValue
      [] expr = "input_df.copy()" -> input_df
      [] expr = "input_df.T" -> [input_df EXCEPT !.labels = "int"]

EvalScope(scope, input_df) == [n \in DOMAIN scope |-> Eval(scope[n], input_df)]

\* the exceptions that derive from Exception (SystemExit and
\* KeyboardInterrupt derive from BaseException only)
IsException(exc) ==
    exc \in {"SyntaxError", "NameError", "UnboundLocalError", "ValueError", "MemoryError"}

\* text.strip() of the texts print() writes
Strip(text) == IF text \in {"\n", " ", ""} THEN "" ELSE text

\* PrintCapture.write, lines 204-206
PrintCapture_write(w, text) ==
    IF Strip(text) # "" THEN log_to_console(w, <<Strip(text)>>, "info") ELSE w

\* print(x) writes str(x), then the line end
print(w) == PrintCapture_write(PrintCapture_write(w, "out"), "\n")

\* the script's print calls, one after the other.  The log is never empty
\* here (the banner of lines 214-217 precedes the script): reading it makes
\* TLC evaluate each print before the next.
RECURSIVE RunPrints(_, _)
RunPrints(w, n) ==
    IF n = 0 \/ w.ss.console_logs = <<>> THEN w
    ELSE RunPrints(print(w), n - 1)

\* the objects sys.stdout can be
OriginalStdout == [kind |-> "TextIOWrapper", owner |-> 0]
PrintCapture(owner) == [kind |-> "PrintCapture", owner |-> owner]
ScriptStream == [kind |-> "StringIO", owner |-> 0]
NotInstalled == [kind |-> "not installed", owner |-> 0]

\* a finally clause that restores nothing
LeaveStdout(saved, current) == current

\* sys.stdout = old_stdout, lines 240 and 284
RestoreStdout(saved, current) == saved

-----------------------------------------------------------------------------
(* execute_python_script(df, script).  env.copy_raises: df.copy() runs out *)
(* of memory.  The result is [w, ret, exc, stdout, during]: the state      *)
(* after the call, the value returned, the exception that left the         *)
(* function ("none": it returned), sys.stdout when control leaves, and     *)
(* sys.stdout while the script ran ("not installed": exec not reached).    *)

Banner == <<"==========">>

\* lines 214-217
exec_banner(w, df) ==
    log_to_console(
        log_to_console(
            log_to_console(
                log_to_console(w, Banner, "info"),
                <<"Starting script execution...">>, "info"),
            <<"Input data:", ToString(df.rows), "rows x",
              ToString(Len(df.columns)), "columns">>, "info"),
        Banner, "info")

\* lines 220-227
ExecGlobals(df) ==
    [n \in {"input_df", "pd", "np", "datetime", "io", "csv"} |->
        IF n = "input_df" THEN df ELSE [kind |-> "module"]]

\* line 237, exec(script, exec_globals, exec_locals): the namespaces and
\* sys.stdout as the script leaves them.  A script that does not compile
\* runs nothing; one that raises has printed first.
exec_script(w, df, script, installed) ==
    [w |-> IF script.raises = "SyntaxError" THEN w ELSE RunPrints(w, script.prints),
     exc |-> script.raises,
     exec_locals |-> IF script.raises = "none"
                     THEN EvalScope(script.locals, df) ELSE <<>>,
     exec_globals |-> IF script.raises = "none"
                      THEN EvalScope(script.globals, df) @@ ExecGlobals(df)
                      ELSE ExecGlobals(df),
     stdout |-> IF script.raises # "SyntaxError" /\ script.sets_stdout
                THEN ScriptStream ELSE installed,
     during |-> installed]

\* the lookup with the two scopes in the other order
LookupGlobalsFirst(exec_locals, exec_globals) ==
    IF "output_df" \in DOMAIN exec_globals THEN exec_globals["output_df"]
    ELSE IF "output_df" \in DOMAIN exec_locals THEN exec_locals["output_df"]
    ELSE None

\* lines 243-248: the local scope first, then the global scope
LookupOutput(exec_locals, exec_globals) ==
    IF "output_df" \in DOMAIN exec_locals THEN exec_locals["output_df"]
    ELSE IF "output_df" \in DOMAIN exec_globals THEN exec_globals["output_df"]
    ELSE None

\* lines 262-264
exec_summary(w, output_df) ==
    log_to_console(
        log_to_console(
            log_to_console(w, Banner, "success"),
            <<"Output generated:", ToString(output_df.rows), "rows x",
              ToString(Len(output_df.columns)), "columns">>, "success"),
        Banner, "success")

\* lines 250-266
exec_check_output(w, output_df) ==
    IF output_df = None THEN
        [w |-> LogFailure(w, <<"Script must define 'output_df' variable">>,
                          "No output_df found after script execution"),
         ret |-> None]
    ELSE IF ~IsDataFrame(output_df) THEN
        [w |-> LogFailure(w, <<"output_df must be a DataFrame, got", TypeOf(output_df)>>, ""),
         ret |-> None]
    ELSE [w |-> exec_summary(w, output_df), ret |-> output_df]

\* the except clauses, lines 268-282
exec_except(w, exc) ==
    LogFailure(w,
               CASE exc = "SyntaxError" -> <<"Syntax Error on line", "1", exc>>
                 [] exc \in {"NameError", "UnboundLocalError"} -> <<"Name Error:", exc>>
                 [] OTHER -> <<"Execution failed:", exc>>,
               "traceback")

\* what the except clauses catch: SyntaxError, NameError, Exception
Caught(exc) == IsException(exc)

exec_outcome(checked, stdout, during) ==
    [w |-> checked.w, ret |-> checked.ret, exc |-> "none",
     stdout |-> stdout, during |-> during]

\* lines 238-284, after exec: the inner finally (line 240), the checks or
\* the except clause, the outer finally (line 284)
exec_after(ran, saved) ==
    IF ran.exc = "none" THEN
        exec_outcome(exec_check_output(ran.w, LookupOutput(ran.exec_locals, ran.exec_globals)),
                     RestoreStdout(saved, RestoreStdout(saved, ran.stdout)), ran.during)
    ELSE IF Caught(ran.exc) THEN
        [w |-> exec_except(ran.w, ran.exc), ret |-> None, exc |-> "none",
         stdout |-> RestoreStdout(saved, RestoreStdout(saved, ran.stdout)),
         during |-> ran.during]
    ELSE
        \* no except clause matches: only the finally clauses run
        [w |-> ran.w, ret |-> None, exc |-> ran.exc,
         stdout |-> RestoreStdout(saved, RestoreStdout(saved, ran.stdout)),
         during |-> ran.during]

\* line 221 raises before old_stdout is bound (line 232): the handler of
\* line 278 runs, then line 284 raises UnboundLocalError
exec_copy_failed(w, stdout) ==
    [w |-> exec_except(w, "MemoryError"), ret |-> None,
     exc |-> "UnboundLocalError", stdout |-> stdout, during |-> NotInstalled]

execute_python_script(w, df, script, stdout, env) ==
    IF env.copy_raises
    THEN exec_copy_failed(exec_banner(w, df), stdout)
    ELSE exec_after(exec_script(exec_banner(w, df), df, script, PrintCapture(0)), stdout)

-----------------------------------------------------------------------------
(* create_dynamic_chart(df), lines 286-344: "fig", "none" (nothing to      *)
(* plot) or "error" (an exception, caught and logged).  Every column read  *)
(* from a file is taken to be numeric.  col.lower() raises for a label     *)
(* that is not a string; what plotly does with the two-dimensional y of a  *)
(* duplicated column name is left open.                                    *)

ChartOutcomes(df) ==
    IF df = None THEN {"none"}
    ELSE IF df.rows = 0 \/ df.columns = <<>> THEN {"none"}
    ELSE IF df.labels # "str" THEN {"error"}
    ELSE IF HasDuplicates(df.columns) THEN {"fig", "error"}
    ELSE {"fig"}

create_dynamic_chart(w, outcome) ==
    IF outcome = "error"
    THEN log_error(w, <<"Chart error:", "AttributeError">>, "traceback")
    ELSE w

-----------------------------------------------------------------------------
(* One pass of the script, top to bottom *)

\* lines 109-120; a missing current_file_names reads as [] (line 366)
InitialSessionState ==
    [processed_data |-> None, console_logs |-> <<>>, error_logs |-> <<>>,
     script_executed |-> FALSE, combined_data |-> None, file_uploader_key |-> 0,
     current_file_names |-> <<>>]

InitialHistory ==
    [console |-> <<>>, errors |-> <<>>, run_console |-> <<>>, run_errors |-> <<>>,
     combined |-> FALSE, combined_df |-> None]

FileNames(files) == [i \in DOMAIN files |-> files[i].name]

\* lines 371-372: the working table is stored only when combining gave one
StoreCombined(ss, combined_df) ==
    IF combined_df # None THEN [ss EXCEPT !.combined_data = combined_df] ELSE ss

\* lines 370-372
UploadCombine(r) ==
    [ss |-> StoreCombined(r.w.ss, r.ret),
     h |-> [r.w.h EXCEPT !.combined = TRUE, !.combined_df = r.ret]]

\* lines 364-397, without the Remove All Files button
UploadSection(w, files) ==
    IF files # <<>> THEN
        IF FileNames(files) # w.ss.current_file_names
        THEN UploadCombine(
                 combine_uploaded_files(
                     [w EXCEPT !.ss.current_file_names = FileNames(files)], files))
        ELSE w
    ELSE
        IF w.ss.combined_data # None
        THEN [w EXCEPT !.ss.combined_data = None,
                       !.ss.processed_data = None,
                       !.ss.script_executed = FALSE,
                       !.ss.current_file_names = <<>>]
        ELSE w

\* a handler that leaves the logs as they are
KeepBothLogs(ss) == ss

\* lines 434-435, 448-449 and 389-390
ClearBothLogs(ss) == [ss EXCEPT !.console_logs = <<>>, !.error_logs = <<>>]

\* a handler that forgets lines 436-437
ResetLogsOnly(ss) == ClearBothLogs(ss)

\* lines 434-437
ResetForRun(ss) ==
    [ClearBothLogs(ss) EXCEPT !.processed_data = None, !.script_executed = FALSE]

\* lines 441-443
StoreResult(ss, result) ==
    IF result # None
    THEN [ss EXCEPT !.processed_data = result, !.script_executed = TRUE]
    ELSE ss

\* lines 488-494: the right column draws the chart of a stored result
Render(w, outcome) ==
    IF w.ss.script_executed /\ w.ss.processed_data # None
    THEN create_dynamic_chart(w, outcome)
    ELSE w

RenderOutcomes(w) ==
    IF w.ss.script_executed /\ w.ss.processed_data # None
    THEN ChartOutcomes(w.ss.processed_data)
    ELSE {"none"}

\* the history of the logs starts again when the logs are emptied
HistoryCleared(h) == [h EXCEPT !.console = <<>>, !.errors = <<>>]
RunHistoryCleared(h) == [h EXCEPT !.run_console = <<>>, !.run_errors = <<>>]
PassStarted(h) == [h EXCEPT !.combined = FALSE, !.combined_df = None]

World == [ss |-> session_state, h |-> PassStarted(history)]

\* the pass ends: w is the state it leaves
Commit(w, files, editor, action, exc, stdout) ==
    /\ session_state' = w.ss
    /\ history' = IF action = "run" THEN w.h ELSE RunHistoryCleared(w.h)
    /\ uploaded_files' = files
    /\ code_editor' = editor
    /\ last_pass' = [action |-> action, exc |-> exc,
                     had_result |-> session_state.processed_data # None]
    /\ sys_stdout' = stdout
    /\ UNCHANGED <<call, pc, old_stdout>>

\* the script reruns to its end: the right column is drawn
RenderPass(w, files, editor, action, stdout) ==
    \E outcome \in RenderOutcomes(w) :
        Commit(Render(w, outcome), files, editor, action, "none", stdout)

\* a pass no button starts: the upload section, then the right column
PlainPass(files, action) ==
    RenderPass(UploadSection(World, files), files, code_editor, action, sys_stdout)

Contains(files, f) == \E i \in DOMAIN files : files[i] = f

RemoveAt(files, i) == SubSeq(files, 1, i - 1) \o SubSeq(files, i + 1, Len(files))

\* the user adds a file to the uploader
AddFileOf(candidates) ==
    \E f \in candidates :
        /\ ~Contains(uploaded_files, f)
        /\ Len(uploaded_files) < MaxUploaded
        /\ PlainPass(Append(uploaded_files, f), "add")

\* the user removes one file from the uploader
RemoveFile ==
    \E i \in DOMAIN uploaded_files :
        PlainPass(RemoveAt(uploaded_files, i), "remove")

\* any other interaction (the preview slider): the script runs again
Rerender == PlainPass(uploaded_files, "rerender")

\* lines 385-391.  Every key is deleted, the logs are set and the script
\* reruns, restoring the defaults of lines 109-120.  The uploader's key
\* becomes 1: a new, empty widget the first time; afterwards the key does
\* not change and the widget may keep its files.
RemoveAllHandler(w) ==
    \E files \in (IF w.ss.file_uploader_key # 1 THEN {<<>>} ELSE {<<>>, uploaded_files}) :
        Commit(UploadSection(
                   [ss |-> [ClearBothLogs(InitialSessionState)
                               EXCEPT !.file_uploader_key = 1],
                    h |-> HistoryCleared(w.h)],
                   files),
               files, code_editor, "remove_all", "none", sys_stdout)

RemoveAllFiles ==
    /\ uploaded_files # <<>>
    /\ RemoveAllHandler(UploadSection(World, uploaded_files))

\* lines 434-437
RunStart(w) ==
    [ss |-> ResetForRun(w.ss), h |-> RunHistoryCleared(HistoryCleared(w.h))]

\* lines 441-444; an exception that leaves the harness ends the pass:
\* st.rerun() is not reached
RunFinish(r, script) ==
    IF r.exc # "none"
    THEN Commit(r.w, uploaded_files, script, "run", r.exc, r.stdout)
    ELSE RenderPass(UploadSection([r.w EXCEPT !.ss = StoreResult(@, r.ret)],
                                  uploaded_files),
                    uploaded_files, script, "run", r.stdout)

\* lines 430-440
RunHandler(w, script, env) ==
    /\ ~(w.ss.combined_data = None \/ script.blank)
    /\ RunFinish(execute_python_script(RunStart(w), w.ss.combined_data, script,
                                       sys_stdout, env),
                 script)

\* the user puts a script in the editor and presses Run Script
RunScriptOf(scripts, envs) ==
    \E script \in scripts, env \in envs :
        RunHandler(UploadSection(World, uploaded_files), script, env)

\* lines 447-450
ClearHandler(w) ==
    RenderPass(UploadSection([ss |-> ClearBothLogs(w.ss), h |-> HistoryCleared(w.h)],
                             uploaded_files),
               uploaded_files, code_editor, "clear", sys_stdout)

ClearLogs == ClearHandler(UploadSection(World, uploaded_files))

-----------------------------------------------------------------------------
(* Spec: one session, every handler, short logs *)

BlankText == [blank |-> TRUE]

Bindings == {NoBinding, Bind("None"), Bind("5"), Bind("input_df.copy()"), Bind("input_df.T")}

Completing(prints) ==
    {[blank |-> FALSE] @@ Script(p, "none", l, g, o) :
        p \in prints, l \in Bindings, g \in Bindings, o \in BOOLEAN}

Raising(prints) ==
    {[blank |-> FALSE] @@ Script(p, e, NoBinding, NoBinding, o) :
        p \in prints, o \in BOOLEAN,
        e \in {"SyntaxError", "NameError", "ValueError", "SystemExit"}}

\* the scripts of the session model: one of each outcome
Pick(prints, raises, locals, globals) ==
    [blank |-> FALSE] @@ Script(prints, raises, locals, globals, FALSE)

Scripts ==
    { Pick(0, "none", NoBinding, NoBinding),
      Pick(1, "none", NoBinding, NoBinding),
      Pick(1, "none", Bind("input_df.copy()"), NoBinding),
      Pick(0, "none", NoBinding, Bind("input_df.T")),
      Pick(0, "none", Bind("5"), Bind("input_df.copy()")),
      Pick(0, "none", Bind("None"), NoBinding),
      Pick(1, "ValueError", NoBinding, NoBinding),
      Pick(0, "SystemExit", NoBinding, NoBinding) }

SessionFiles == {FileA, FileD, FileX}

Envs == {[copy_raises |-> FALSE]}

Init ==
    /\ session_state = InitialSessionState
    /\ uploaded_files = <<>>
    /\ code_editor = BlankText
    /\ sys_stdout = OriginalStdout
    /\ history = InitialHistory
    /\ last_pass = [action |-> "init", exc |-> "none", had_result |-> FALSE]
    /\ call = [op |-> "none"]
    /\ pc = <<"idle", "idle">>
    /\ old_stdout = <<None, None>>

WithinBounds ==
    /\ Len(history'.console) <= MaxConsoleHist
    /\ Len(history'.errors) <= MaxErrorHist

AddFile == AddFileOf(SessionFiles) /\ WithinBounds
RemoveOne == RemoveFile /\ WithinBounds
Redraw == Rerender /\ WithinBounds
RemoveAll == RemoveAllFiles /\ WithinBounds
RunScript == RunScriptOf(Scripts \cup {BlankText}, Envs) /\ WithinBounds
Clear == ClearLogs /\ WithinBounds

Next == AddFile \/ RemoveOne \/ Redraw \/ RemoveAll \/ RunScript \/ Clear

Spec == Init /\ [][Next]_vars

-----------------------------------------------------------------------------
(* SpecFn: the two functions on their own.  Init draws the arguments of    *)
(* one call; the action makes the call and records what it returned.       *)

RECURSIVE FileLists(_)
FileLists(n) ==
    IF n = 0 THEN {<<>>}
    ELSE FileLists(n - 1) \cup
         {Append(l, f) : l \in {k \in FileLists(n - 1) : Len(k) = n - 1},
                         f \in AllFiles}

DistinctFileLists == {l \in FileLists(MaxListLen) : ~HasDuplicates(l)}

\* the working tables the harness is given
InputTables ==
    { process_uploaded_file(FileA.bytes, FileA.name),
      process_uploaded_file(FileD.bytes, FileD.name),
      combine_uploaded_files([ss |-> InitialSessionState, h |-> InitialHistory],
                             <<FileB, FileL>>).ret }

FnScripts == Completing({0, 1}) \cup Raising({0, 1})

FnEnvs == {[copy_raises |-> FALSE], [copy_raises |-> TRUE]}

CombineCalls == {[op |-> "combine", done |-> FALSE, files |-> l] : l \in DistinctFileLists}

ExecuteCalls ==
    {[op |-> "execute", done |-> FALSE, df |-> d, script |-> s, env |-> e] :
        d \in InputTables, s \in FnScripts, e \in FnEnvs}

InitFn ==
    /\ session_state = InitialSessionState
    /\ uploaded_files = <<>>
    /\ code_editor = BlankText
    /\ sys_stdout \in {OriginalStdout, ScriptStream}
    /\ history = InitialHistory
    /\ last_pass = [action |-> "init", exc |-> "none", had_result |-> FALSE]
    /\ call \in CombineCalls \cup ExecuteCalls
    /\ pc = <<"idle", "idle">>
    /\ old_stdout = <<None, None>>

Returned(r, stdout) ==
    /\ session_state' = r.w.ss
    /\ history' = r.w.h
    /\ sys_stdout' = stdout
    /\ UNCHANGED <<uploaded_files, code_editor, last_pass, pc, old_stdout>>

CombineReturned(r) ==
    /\ call' = [call EXCEPT !.done = TRUE] @@ [ret |-> r.ret, exc |-> r.exc]
    /\ Returned(r, sys_stdout)

CallCombine ==
    /\ call.op = "combine" /\ ~call.done
    /\ CombineReturned(combine_uploaded_files(World, call.files))

ExecuteReturned(r) ==
    /\ call' = [call EXCEPT !.done = TRUE] @@
                   [ret |-> r.ret, exc |-> r.exc, during |-> r.during, entry |-> sys_stdout]
    /\ Returned(r, r.stdout)

CallExecute ==
    /\ call.op = "execute" /\ ~call.done
    /\ ExecuteReturned(execute_python_script(World, call.df, call.script, sys_stdout,
                                             call.env))

NextFn == CallCombine \/ CallExecute

SpecFn == InitFn /\ [][NextFn]_vars

-----------------------------------------------------------------------------
(* Claims about the two functions (SpecFn) *)

Combined == call.op = "combine" /\ call.done
Executed == call.op = "execute" /\ call.done

\* a file the loader can read: a known suffix and content that decodes
Loads(f) ==
    \/ f.name.ext = ".csv" /\ f.bytes.enc \in {"utf8", "latin1"}
    \/ f.name.ext \in {".xlsx", ".xls"} /\ f.bytes.enc \in {"xlsx", "xls"}

Loadable(files) == SelectSeq(files, Loads)

RECURSIVE SumRows(_)
SumRows(files) == IF files = <<>> THEN 0 ELSE Head(files).bytes.rows + SumRows(Tail(files))

Trimmed(f) == [i \in DOMAIN f.bytes.header |-> f.bytes.header[i].base]

TableOf(f) == DataFrame(<<f.name.stem>>, f.bytes.rows, Trimmed(f), "str")

CountMsg(log, first) == Cardinality({i \in DOMAIN log : log[i].msg[1] = first})
CountIcon(log, icon) == Cardinality({i \in DOMAIN log : log[i].icon = icon})

\* pd.concat refuses the tables: one has colliding column names and the
\* column lists are not all the same
ConcatRefused(files) ==
    /\ Len(files) >= 2
    /\ \E i \in DOMAIN files : HasDuplicates(Trimmed(files[i]))
    /\ \E i \in DOMAIN files : Trimmed(files[i]) # Trimmed(files[1])

CombineResultOk ==
    /\ call.ret # None =>
          /\ call.ret.rows = SumRows(Loadable(call.files))
          /\ call.ret.parts = [i \in DOMAIN Loadable(call.files) |->
                                  Loadable(call.files)[i].name.stem]
          /\ Len(Loadable(call.files)) = 1 => call.ret = TableOf(Loadable(call.files)[1])
    /\ CountMsg(history.console, "Loaded:") = Len(Loadable(call.files))

\* C9 as stated: combine_uploaded_files never raises; it returns None
\* exactly when the list is empty or no file loads; otherwise a table whose
\* rows are those of the files that loaded (the one table verbatim when one
\* loaded); a file that does not load is skipped, with no "Loaded" entry.
C9_Original ==
    Combined =>
        /\ call.exc = "none"
        /\ (call.ret = None) <=> (Loadable(call.files) = <<>>)
        /\ CombineResultOk

\* C9 amended: as C9, except that None is also returned when pd.concat
\* raises on the loaded tables; the exception is caught and logged once to
\* the console log and once to the error log.
C9_CombineResult ==
    Combined =>
        /\ call.exc = "none"
        /\ (call.ret = None) <=>
               (Loadable(call.files) = <<>> \/ ConcatRefused(Loadable(call.files)))
        /\ CombineResultOk
        /\ IF ConcatRefused(Loadable(call.files))
           THEN Len(history.errors) = 1 /\ CountIcon(history.console, "ERROR") = 1
           ELSE history.errors = <<>> /\ CountIcon(history.console, "ERROR") = 0

\* a batch of three in which the middle file does not load
C9_Witness ==
    /\ Combined
    /\ Len(call.files) = 3 /\ ~Loads(call.files[2])
    /\ call.ret # None /\ call.ret.rows = 3

\* C1: whatever the script raises, execute_python_script lets no exception
\* escape: it returns None, with one error entry appended to the console
\* log and one entry to the error log.
C1_NeverEscapes ==
    (Executed /\ ~call.env.copy_raises) =>
        /\ call.exc = "none"
        /\ call.script.raises # "none" =>
              /\ call.ret = None
              /\ CountIcon(history.console, "ERROR") = 1
              /\ Len(history.errors) = 1

\* C2: on every exit path sys.stdout is, when control leaves the harness,
\* the object it was on entry; the PrintCapture is installed only while
\* the script runs.
C2_StdoutRestored ==
    Executed =>
        /\ sys_stdout = call.entry
        /\ sys_stdout.kind # "PrintCapture"
        /\ call.during.kind = IF call.env.copy_raises THEN "not installed" ELSE "PrintCapture"

\* a script that replaced sys.stdout itself and then raised past the harness
C2_Witness ==
    /\ Executed
    /\ call.script.sets_stdout /\ call.exc = "SystemExit"
    /\ call.entry = ScriptStream /\ sys_stdout = ScriptStream

ScriptCompleted == Executed /\ call.script.raises = "none" /\ ~call.env.copy_raises

InLocals == "output_df" \in DOMAIN call.script.locals
InGlobals == "output_df" \in DOMAIN call.script.globals

\* the value the script left bound to output_df (the local binding hides
\* the global one)
BoundValue ==
    IF InLocals THEN Eval(call.script.locals["output_df"], call.df)
    ELSE Eval(call.script.globals["output_df"], call.df)

\* C4: a script that completes and leaves output_df bound to a value that
\* is not a table (a number, a list, None) gets None and the
\* WrongOutputType failure naming the value's type, not MissingOutput.
C4_WrongOutputType ==
    (ScriptCompleted /\ (InLocals \/ InGlobals) /\ ~IsDataFrame(BoundValue)) =>
        /\ call.ret = None
        /\ history.errors =
               << [msg |-> <<"output_df must be a DataFrame, got", TypeOf(BoundValue)>>,
                   tb |-> ""] >>

\* C6: a script that completes and binds output_df to a table gets exactly
\* that table, bound locally or globally; the local scope is consulted
\* first and the global scope only when the name is absent from the local.
C6_ResultTable ==
    ScriptCompleted =>
        /\ (InLocals /\ IsDataFrame(Eval(call.script.locals["output_df"], call.df)))
              => call.ret = Eval(call.script.locals["output_df"], call.df)
        /\ (~InLocals /\ InGlobals
               /\ IsDataFrame(Eval(call.script.globals["output_df"], call.df)))
              => call.ret = Eval(call.script.globals["output_df"], call.df)
        /\ (InLocals /\ ~IsDataFrame(Eval(call.script.locals["output_df"], call.df)))
              => call.ret = None

\* a table bound only in the global scope is returned
C6_Witness ==
    /\ ScriptCompleted
    /\ ~InLocals /\ InGlobals
    /\ call.script.globals["output_df"] = "input_df.T"
    /\ IsDataFrame(call.ret) /\ call.ret.labels = "int" /\ call.ret.parts = call.df.parts

-----------------------------------------------------------------------------
(* Claims about the session (Spec) *)

LastRun == last_pass.action = "run"

EditorBinds == 
    "output_df" \in DOMAIN code_editor.locals \/ "output_df" \in DOMAIN code_editor.globals

EditorValue ==
    IF "output_df" \in DOMAIN code_editor.locals
    THEN Eval(code_editor.locals["output_df"], session_state.combined_data)
    ELSE Eval(code_editor.globals["output_df"], session_state.combined_data)

\* the table the script in the editor produces from the working table
ExpectedResult ==
    IF code_editor.raises = "none" /\ EditorBinds /\ IsDataFrame(EditorValue)
    THEN EditorValue ELSE None

IsSuffix(s, t) ==
    /\ Len(s) <= Len(t)
    /\ s = SubSeq(t, Len(t) - Len(s) + 1, Len(t))

MissingOutputEntry ==
    [msg |-> <<"Script must define 'output_df' variable">>,
     tb |-> "No output_df found after script execution"]

\* C5: after Run Script on a script that completes and assigns output_df in
\* neither scope, the result is absent (processed_data None,
\* script_executed False) and the error log holds exactly one entry, the
\* MissingOutput entry.
C5_MissingOutput ==
    (LastRun /\ code_editor.raises = "none" /\ ~EditorBinds) =>
        /\ session_state.processed_data = None
        /\ ~session_state.script_executed
        /\ session_state.error_logs = <<MissingOutputEntry>>

\* such a run, made while an earlier result was on display
C5_Witness ==
    /\ LastRun /\ code_editor.raises = "none" /\ ~EditorBinds
    /\ code_editor.prints = 1
    /\ last_pass.had_result
    /\ Len(session_state.error_logs) = 1

\* C7: Run Script replaces the previous run's record: the stored result is
\* the table of the most recent run if it succeeded and absent if it failed,
\* script_executed is true exactly when a result is stored, and both logs
\* hold only entries appended since that run started.
C7_RunReplacesRecord ==
    /\ session_state.script_executed <=> session_state.processed_data # None
    /\ LastRun =>
          /\ session_state.processed_data = ExpectedResult
          /\ IsSuffix(session_state.console_logs, history.run_console)
          /\ IsSuffix(session_state.error_logs, history.run_errors)

\* a failed run made while an earlier run's table was stored
C7_Witness ==
    /\ LastRun /\ last_pass.had_result
    /\ code_editor.raises = "ValueError"
    /\ session_state.processed_data = None /\ ~session_state.script_executed
    /\ Len(session_state.error_logs) = 1

\* C8: the working table always corresponds to the uploaded file set: it is
\* absent, or it holds the rows of the files of the current set (never
\* data combined from an earlier set).
C8_WorkingTableCurrent ==
    \/ session_state.combined_data = None
    \/ session_state.combined_data.parts =
           [i \in DOMAIN Loadable(uploaded_files) |-> Loadable(uploaded_files)[i].name.stem]

-----------------------------------------------------------------------------
(* SpecLog: one session with one file and scripts that print at length:    *)
(* the logs reach their caps.                                              *)

MaxLogConsole == 108    \* console entries appended between two clears (SpecLog)

LogScripts ==
    { Pick(MaxPrints, "none", NoBinding, Bind("input_df.T")),
      Pick(MaxPrints, "ValueError", NoBinding, NoBinding) }

WithinLogBounds ==
    /\ Len(history'.console) <= MaxLogConsole
    /\ Len(history'.errors) <= MaxLogErrors

LogAddFile == AddFileOf({FileA}) /\ WithinLogBounds
LogRemoveOne == RemoveFile /\ WithinLogBounds
LogRedraw == Rerender /\ WithinLogBounds
LogRunScript == RunScriptOf(LogScripts, Envs) /\ WithinLogBounds
LogClear == ClearLogs /\ WithinLogBounds

NextLog == LogAddFile \/ LogRemoveOne \/ LogRedraw \/ LogRunScript \/ LogClear

SpecLog == Init /\ [][NextLog]_vars

\* the last cap entries of everything appended
Newest(appended, cap) ==
    [i \in 1..(IF Len(appended) > cap THEN cap ELSE Len(appended)) |->
        appended[i + (IF Len(appended) > cap THEN Len(appended) - cap ELSE 0)]]

\* C3: the console log holds at most 100 entries and the error log at most
\* 20; each is the most recent suffix, in append order, of everything
\* appended since it was last cleared.
C3_LogsBounded ==
    /\ Len(session_state.console_logs) <= 100
    /\ Len(session_state.error_logs) <= 20
    /\ session_state.console_logs = Newest(history.console, 100)
    /\ session_state.error_logs = Newest(history.errors, 20)

\* both logs have dropped entries
C3_Witness ==
    /\ Len(history.console) > 100 /\ Len(session_state.console_logs) = 100
    /\ Len(history.errors) > 20 /\ Len(session_state.error_logs) = 20

-----------------------------------------------------------------------------
(* SpecConc: two sessions of one process, each in its own script thread,   *)
(* inside execute_python_script.  sys.stdout is shared; old_stdout is a    *)
(* local of each call.                                                     *)

Sessions == {1, 2}

Goto(t, from, to) ==
    /\ pc[t] = from
    /\ pc' = [pc EXCEPT ![t] = to]

Untouched ==
    UNCHANGED <<session_state, uploaded_files, code_editor, history, last_pass, call>>

\* lines 213-229
Enter(t) ==
    /\ Goto(t, "idle", "entered")
    /\ UNCHANGED <<sys_stdout, old_stdout>> /\ Untouched

\* line 232
SaveStdout(t) ==
    /\ Goto(t, "entered", "saved")
    /\ old_stdout' = [old_stdout EXCEPT ![t] = sys_stdout]
    /\ UNCHANGED sys_stdout /\ Untouched

\* line 233
InstallCapture(t) ==
    /\ Goto(t, "saved", "installed")
    /\ sys_stdout' = PrintCapture(t)
    /\ UNCHANGED old_stdout /\ Untouched

\* line 237: the script runs, and completes or raises
ExecScript(t) ==
    /\ Goto(t, "installed", "ran")
    /\ UNCHANGED <<sys_stdout, old_stdout>> /\ Untouched

\* line 240
InnerFinally(t) ==
    /\ Goto(t, "ran", "restored")
    /\ sys_stdout' = RestoreStdout(old_stdout[t], sys_stdout)
    /\ UNCHANGED old_stdout /\ Untouched

\* lines 242-284: the checks or the except clause, then the outer finally
OuterFinally(t) ==
    /\ Goto(t, "restored", "done")
    /\ sys_stdout' = RestoreStdout(old_stdout[t], sys_stdout)
    /\ UNCHANGED old_stdout /\ Untouched

\* the call has returned; the session may run a script again
Return(t) ==
    /\ Goto(t, "done", "idle")
    /\ old_stdout' = [old_stdout EXCEPT ![t] = None]
    /\ UNCHANGED sys_stdout /\ Untouched

NextConc ==
    \E t \in Sessions :
        \/ Enter(t)
        \/ SaveStdout(t)
        \/ InstallCapture(t)
        \/ ExecScript(t)
        \/ InnerFinally(t)
        \/ OuterFinally(t)
        \/ Return(t)

SpecConc == Init /\ [][NextConc]_vars

\* C10: when the executions of two sessions overlap, then once both have
\* finished sys.stdout is again the original stream and no PrintCapture
\* remains installed.
C10_StdoutAfterOverlap ==
    (pc[1] = "done" /\ pc[2] = "done") =>
        /\ sys_stdout = OriginalStdout
        /\ sys_stdout.kind # "PrintCapture"

====
